---------------------------- MODULE Spec2Model ----------------------------
(***************************************************************************)
(* A model of bert.cpp (src/bert.cpp): the WordPiece tokenizer with its    *)
(* normalizer, the model loader with the resources it acquires and         *)
(* releases, the graph builder's batch check and input tensors, and the    *)
(* forward / encode drivers.                                               *)
(*                                                                         *)
(* Strings are sequences of bytes (numbers 0..255), indexed from 1 here    *)
(* and from 0 in the source; operators that take an index take the         *)
(* source's 0-based index.                                                 *)
(***************************************************************************)
EXTENDS Integers, Sequences, FiniteSets, TLC

(***************************************************************************)
(* Bounds of the model.                                                    *)
(***************************************************************************)
\* longest input text, in bytes
MaxTextLen == 3
\* longest row of a batch a caller hands to bert_forward_batch
MaxRowLen == 4
\* largest cap a caller passes to bert_tokenize
MaxCap == 4
\* longest token list of a model file
MaxTokenList == 3
\* largest batch handed to bert_forward_batch / bert_encode_batch
MaxBatch == 2
\* longest text, in bytes, handed to the normalizer and the word splitter
MaxRichLen == 4
\* most forward passes (bert_forward_batch / bert_encode_batch) of a session
MaxCalls == 2

(***************************************************************************)
(* Program constants.                                                      *)
(***************************************************************************)
cls_tok_id == 101
sep_tok_id == 102
unk_tok_id == 100
\* the id written into padding positions of the token tensor
pad_tok_id == 101

Min(a, b) == IF a < b THEN a ELSE b

SetMax(S) == CHOOSE x \in S : \A y \in S : y <= x

\* std::string::substr(pos, len): clipped at the end of the string
substr(s, pos, len) == SubSeq(s, pos + 1, Min(pos + len, Len(s)))

\* s[i] of a std::string, 0-based (s[size()] is the terminating NUL)
at(s, i) == IF i < Len(s) THEN s[i + 1] ELSE 0

(***************************************************************************)
(* Normalizer                                                              *)
(***************************************************************************)
utf8_len(src) ==
    LET highbits == src \div 16
    IN  IF highbits <= 11 THEN 1
        ELSE IF highbits <= 13 THEN 2
        ELSE IF highbits = 14 THEN 3
        ELSE 4

\* the accent map of strip_accents, keyed by the second byte of the
\* two-byte sequence 0xC3 xx; 0 when the sequence is no key of the map
accentMap(curChar) ==
    IF Len(curChar) # 2 \/ curChar[1] # 195 THEN 0
    ELSE LET x == curChar[2]
         IN  IF x \in 128..133 THEN 65
             ELSE IF x = 135 THEN 67
             ELSE IF x \in 136..139 THEN 69
             ELSE IF x \in 140..143 THEN 73
             ELSE IF x = 145 THEN 78
             ELSE IF x \in 146..150 THEN 79
             ELSE IF x \in 153..156 THEN 85
             ELSE IF x = 157 THEN 89
             ELSE IF x \in 160..165 THEN 97
             ELSE IF x = 167 THEN 99
             ELSE IF x \in 168..171 THEN 101
             ELSE IF x \in 172..175 THEN 105
             ELSE IF x = 177 THEN 110
             ELSE IF x \in 178..182 THEN 111
             ELSE IF x \in 185..188 THEN 117
             ELSE IF x = 189 THEN 121
             ELSE 0

RECURSIVE strip_accents_from(_, _)
strip_accents_from(inputString, i) ==
    IF i >= Len(inputString) THEN << >>
    ELSE LET len     == utf8_len(at(inputString, i))
             curChar == substr(inputString, i, len)
             fold    == accentMap(curChar)
         IN  (IF fold # 0 THEN <<fold>> ELSE curChar)
                 \o strip_accents_from(inputString, i + len)

strip_accents(inputString) == strip_accents_from(inputString, 0)

\* the lowercasing loop of bert_normalize_prompt: it visits the first byte
\* of each codepoint only
RECURSIVE lower_from(_, _)
lower_from(text2, i) ==
    IF i >= Len(text2) THEN text2
    ELSE LET c == at(text2, i)
             t == IF c >= 65 /\ c <= 90
                  THEN [text2 EXCEPT ![i + 1] = c - 65 + 97]
                  ELSE text2
         IN  lower_from(t, i + utf8_len(c))

\* a normalizer that lowercases before it strips the accents
normalize_lower_first(text) == strip_accents(lower_from(text, 0))

bert_normalize_prompt(text) == lower_from(strip_accents(text), 0)

(***************************************************************************)
(* Pre-split                                                               *)
(***************************************************************************)
\* ispunct / isspace in the "C" locale (the program never sets a locale)
ispunct(c) == c \in (33..47) \cup (58..64) \cup (91..96) \cup (123..126)

isspace(c) == c \in (9..13) \cup {32}

InRange(cp, lo, hi) == cp >= lo /\ cp <= hi

RECURSIVE decode_from(_, _, _, _)
\* the trailing-byte loop of is_chinese_char: -1 for "return false"
decode_from(str, j, num_bytes, codepoint) ==
    IF j >= num_bytes THEN codepoint
    ELSE IF j >= Len(str) THEN -1
    ELSE LET next_ch == at(str, j)
         IN  IF next_ch \div 64 # 2 THEN -1
             ELSE decode_from(str, j + 1, num_bytes,
                              codepoint * 64 + (next_ch % 64))

is_chinese_char(str) ==
    LET ch == at(str, 0)
        first == IF ch <= 127 THEN <<ch, 1>>
                 ELSE IF ch \div 32 = 6 THEN <<ch % 32, 2>>
                 ELSE IF ch \div 16 = 14 THEN <<ch % 16, 3>>
                 ELSE IF ch \div 8 = 30 THEN <<ch % 8, 4>>
                 ELSE <<0, 0>>
        codepoint == decode_from(str, 1, first[2], first[1])
    IN  /\ codepoint # -1
        /\ \/ InRange(codepoint, 19968, 40959)
           \/ InRange(codepoint, 13312, 19903)
           \/ InRange(codepoint, 131072, 173791)
           \/ InRange(codepoint, 173824, 177983)
           \/ InRange(codepoint, 177984, 178207)
           \/ InRange(codepoint, 178464, 183983)
           \/ InRange(codepoint, 63744, 64255)
           \/ InRange(codepoint, 194560, 195103)
           \/ InRange(codepoint, 12288, 12351)
           \/ InRange(codepoint, 65280, 65519)

RECURSIVE pre_split_from(_, _)
pre_split_from(ori_str, i) ==
    IF i >= Len(ori_str) THEN << >>
    ELSE LET utf_char_len == utf8_len(at(ori_str, i))
         IN  IF utf_char_len = 1 /\ ispunct(at(ori_str, i))
             THEN <<32, at(ori_str, i), 32>> \o pre_split_from(ori_str, i + 1)
             ELSE IF utf_char_len = 3 /\ is_chinese_char(substr(ori_str, i, 3))
             THEN <<32>> \o substr(ori_str, i, 3) \o <<32>>
                      \o pre_split_from(ori_str, i + 3)
             ELSE <<at(ori_str, i)>> \o pre_split_from(ori_str, i + 1)

RECURSIVE pre_split_ascii(_)
\* a pre-split that isolates punctuation only
pre_split_ascii(ori_str) ==
    IF ori_str = << >> THEN << >>
    ELSE (IF ispunct(Head(ori_str)) THEN <<32, Head(ori_str), 32>>
          ELSE <<Head(ori_str)>>) \o pre_split_ascii(Tail(ori_str))

pre_split(ori_str) == pre_split_from(ori_str, 0)

RECURSIVE split_from(_, _, _)
\* the l/r loop that cuts new_str at whitespace
split_from(new_str, l, r) ==
    IF r >= Len(new_str)
    THEN IF r > l THEN <<substr(new_str, l, r - l)>> ELSE << >>
    ELSE IF isspace(at(new_str, r))
         THEN (IF r > l THEN <<substr(new_str, l, r - l)>> ELSE << >>)
                  \o split_from(new_str, r + 1, r + 1)
         ELSE split_from(new_str, l, r + 1)

split_words(new_str) == split_from(new_str, 0, 0)

(***************************************************************************)
(* Vocabulary                                                              *)
(***************************************************************************)
EmptyMap == [x \in {} |-> 0]

\* m[k] = v of a std::map
Put(m, k, v) == [x \in DOMAIN m \cup {k} |-> IF x = k THEN v ELSE m[x]]

EmptyVocab ==
    [token_to_id          |-> EmptyMap,
     subword_token_to_id  |-> EmptyMap,
     _id_to_token         |-> EmptyMap,
     _id_to_subword_token |-> EmptyMap]

\* one iteration of the "load vocab" loop, for entry i (0-based) of the list
add_token(vocab, word, i) ==
    LET v1 == IF at(word, 0) = 35 /\ at(word, 1) = 35
              THEN [vocab EXCEPT
                      !.subword_token_to_id =
                          Put(@, substr(word, 2, Len(word)), i),
                      !._id_to_subword_token = Put(@, i, word)]
              ELSE vocab
    IN  IF word \notin DOMAIN v1.token_to_id
        THEN [v1 EXCEPT !.token_to_id  = Put(@, word, i),
                        !._id_to_token = Put(@, i, word)]
        ELSE v1

RECURSIVE load_vocab_from(_, _, _)
load_vocab_from(token_list, i, vocab) ==
    IF i >= Len(token_list) THEN vocab
    ELSE load_vocab_from(token_list, i + 1,
                         add_token(vocab, token_list[i + 1], i))

load_vocab(token_list) == load_vocab_from(token_list, 0, EmptyVocab)

(***************************************************************************)
(* Greedy WordPiece                                                        *)
(***************************************************************************)
RECURSIVE scan_word(_, _, _, _, _, _)
\* the "loop:" while of bert_tokenize for one word, from cursor i; t, the
\* source's token counter, is Len(tokens) throughout
scan_word(vocab, word, i, use_sub, tokens, n_max_tokens) ==
    LET n == Len(word)
        token_map == IF use_sub THEN vocab.subword_token_to_id
                     ELSE vocab.token_to_id
        hits == {j \in (i + 1)..n : substr(word, i, j - i) \in DOMAIN token_map}
    IN  IF i >= n \/ Len(tokens) >= n_max_tokens - 1 THEN tokens
        ELSE IF hits # {}
        THEN LET j == SetMax(hits)
             IN  scan_word(vocab, word, j, TRUE,
                           Append(tokens, token_map[substr(word, i, j - i)]),
                           n_max_tokens)
        ELSE scan_word(vocab, word, i + 1, TRUE, tokens, n_max_tokens)

\* the body of the "for word : words" loop
tokenize_word(vocab, word, tokens, n_max_tokens) ==
    IF Len(word) = 0 THEN tokens
    ELSE LET scanned == scan_word(vocab, word, 0, FALSE, tokens, n_max_tokens)
         IN  IF Len(scanned) = Len(tokens)
             THEN Append(scanned, unk_tok_id)
             ELSE scanned

RECURSIVE tokenize_words(_, _, _, _, _)
tokenize_words(vocab, words, k, tokens, n_max_tokens) ==
    IF k > Len(words) THEN tokens
    ELSE tokenize_words(vocab, words, k + 1,
                        tokenize_word(vocab, words[k], tokens, n_max_tokens),
                        n_max_tokens)

\* the words of a text: normalize, pre-split, whitespace split
text_words(text) == split_words(pre_split(bert_normalize_prompt(text)))

\* a tokenizer that cuts its result to the cap after the fact
bert_tokenize_resized(vocab, text, n_max_tokens) ==
    LET all == Append(tokenize_words(vocab, text_words(text), 1,
                                     <<cls_tok_id>>, n_max_tokens),
                      sep_tok_id)
    IN  SubSeq(all, 1, Min(Len(all), n_max_tokens))

bert_tokenize(vocab, text, n_max_tokens) ==
    Append(tokenize_words(vocab, text_words(text), 1,
                          <<cls_tok_id>>, n_max_tokens),
           sep_tok_id)

(***************************************************************************)
(* Model files                                                             *)
(*                                                                         *)
(* A model file is described by what the loader reads from it: the         *)
(* hyperparameters, the token list, and where (if anywhere) reading it     *)
(* fails.  "fault" names the one thing wrong with the file: "none", "open" *)
(* (the container cannot be opened), a metadata key that is absent,        *)
(* "ggml_init" (the tensor metadata context cannot be created), "reopen"   *)
(* (the file cannot be opened a second time), "seek" (seekg fails for a    *)
(* tensor), "tensor" / "tensor_layer" (an embedding tensor / a tensor of   *)
(* layer 0 is absent from the tensor directory).                           *)
(***************************************************************************)
InfoKeys == {"general.file_type", "general.description", "general.name"}

HparamKeys == {"vocab_size", "max_position_embedding", "hidden_size",
               "intermediate_size", "num_attention_heads",
               "num_hidden_layers", "layer_norm_eps"}

Faults == {"none", "open", "ggml_init", "reopen", "seek", "tensor",
           "tensor_layer"} \cup InfoKeys \cup HparamKeys

\* "a", "##a", "##b", "#a"
TokenAlphabet == {<<97>>, <<35, 35, 97>>, <<35, 35, 98>>, <<35, 97>>}

SeqsUpTo(S, n) == UNION {[1..k -> S] : k \in 0..n}

VocabSizes == {2, 103}

MaxTokenChoices == {2, 3}

\* <<n_embd, n_head>>
ShapeChoices == {<<2, 1>>, <<3, 2>>, <<4, 2>>}

LayerChoices == {0, 1}

MakeFiles(faults, vocab_sizes, max_tokens, token_lists, shapes, layers) ==
    {[fault        |-> fl,
      n_vocab      |-> v,
      n_max_tokens |-> m,
      n_embd       |-> sh[1],
      n_head       |-> sh[2],
      n_layer      |-> nl,
      tokens       |-> tl] :
        fl \in faults, v \in vocab_sizes, m \in max_tokens,
        sh \in shapes, nl \in layers, tl \in token_lists}

\* every model file within the bounds
Files == MakeFiles(Faults, VocabSizes, MaxTokenChoices,
                   SeqsUpTo(TokenAlphabet, MaxTokenList),
                   ShapeChoices, LayerChoices)

\* well-formed files with a few vocabularies, for the sessions that tokenize
SessionFiles ==
    MakeFiles({"none"}, VocabSizes, MaxTokenChoices,
              {<<<<97>>>>, <<<<97>>, <<35, 35, 98>>>>,
               <<<<97, 98>>, <<35, 35, 98>>, <<98>>>>},
              {<<2, 1>>}, {1})

\* "a", "ab", "##a", "##b"
WordPieces == {<<97>>, <<97, 98>>, <<35, 35, 97>>, <<35, 35, 98>>}

\* well-formed files with every token list of word pieces, for the tokenizer
TokenizerFiles ==
    MakeFiles({"none"}, {103}, {3}, SeqsUpTo(WordPieces, MaxTokenList),
              {<<2, 1>>}, {1})

NoFile ==
    [fault |-> "none", n_vocab |-> 0, n_max_tokens |-> 0, n_embd |-> 0,
     n_head |-> 0, n_layer |-> 0, tokens |-> << >>]

NoHparams ==
    [n_vocab |-> 0, n_max_tokens |-> 0, n_embd |-> 0, n_head |-> 0,
     n_layer |-> 0]

(***************************************************************************)
(* Graph builder                                                           *)
(***************************************************************************)
NoGraph ==
    [gf |-> "none", L |-> 0, B |-> 0, written |-> FALSE,
     token_layer |-> << >>, pad_mask |-> << >>, positions |-> << >>,
     sum |-> << >>]

\* cur_max_len: the longest row of the batch
max_len(batch) == SetMax({0} \cup {Len(batch[b]) : b \in DOMAIN batch})

\* ggml_reshape_4d(.., d_head, n_head, L, B) of an [E, L, B] tensor needs
\* d_head * n_head = n_embd; it is reached once per layer
reshape_ok(hparams) ==
    \/ hparams.n_layer = 0
    \/ (hparams.n_embd \div hparams.n_head) * hparams.n_head = hparams.n_embd

\* a builder that gives every position of a row the pooling weight 1/L
bert_build_graph_mean_over_L(hparams, batch, measure) ==
    LET B == Len(batch)
        L == max_len(batch)
        cell(k) == [b |-> (k - 1) \div L, i |-> (k - 1) % L]
        valid(k) == cell(k).i < Len(batch[cell(k).b + 1])
    IN  IF L > hparams.n_max_tokens
        THEN [NoGraph EXCEPT !.gf = "null", !.L = L, !.B = B]
        ELSE IF ~reshape_ok(hparams)
        THEN [NoGraph EXCEPT !.gf = "abort", !.L = L, !.B = B]
        ELSE IF measure
        THEN [NoGraph EXCEPT !.gf = "graph", !.L = L, !.B = B]
        ELSE [gf |-> "graph", L |-> L, B |-> B, written |-> TRUE,
              token_layer |->
                  [k \in 1..(L * B) |->
                      IF valid(k) THEN batch[cell(k).b + 1][cell(k).i + 1]
                      ELSE pad_tok_id],
              pad_mask  |-> [k \in 1..(L * B) |-> IF valid(k) THEN 1 ELSE 0],
              positions |-> [k \in 1..(L * B) |-> cell(k).i],
              sum       |-> [k \in 1..(L * B) |-> L]]

\* The input tensors, row-major (b, i) at index b * L + i (0-based); a sum
\* entry n stands for the float 1/n, 0 for 0.0.
bert_build_graph(hparams, batch, measure) ==
    LET B == Len(batch)
        L == max_len(batch)
        cell(k) == [b |-> (k - 1) \div L, i |-> (k - 1) % L]
        cur_len(k) == Len(batch[cell(k).b + 1])
        valid(k) == cell(k).i < cur_len(k)
    IN  IF L > hparams.n_max_tokens
        THEN [NoGraph EXCEPT !.gf = "null", !.L = L, !.B = B]
        ELSE IF ~reshape_ok(hparams)
        THEN [NoGraph EXCEPT !.gf = "abort", !.L = L, !.B = B]
        ELSE IF measure
        THEN [NoGraph EXCEPT !.gf = "graph", !.L = L, !.B = B]
        ELSE [gf |-> "graph", L |-> L, B |-> B, written |-> TRUE,
              token_layer |->
                  [k \in 1..(L * B) |->
                      IF valid(k) THEN batch[cell(k).b + 1][cell(k).i + 1]
                      ELSE pad_tok_id],
              pad_mask  |-> [k \in 1..(L * B) |-> IF valid(k) THEN 1 ELSE 0],
              positions |-> [k \in 1..(L * B) |-> cell(k).i],
              sum       |-> [k \in 1..(L * B) |->
                                IF valid(k) THEN cur_len(k) ELSE 0]]

(***************************************************************************)
(* Resources.  held is the set of resources the process holds:             *)
(*   gguf            the container context (gguf_init_from_file)           *)
(*   meta            the metadata context gguf_init_from_file fills        *)
(*   bert_ctx        the bert_ctx object (new bert_ctx)                    *)
(*   backend         the backend handle                                    *)
(*   ctx_data        the tensor metadata context (ggml_init)               *)
(*   params_buffer   the parameter backend buffer                          *)
(*   alloc           the allocator over the parameter buffer               *)
(*   compute_alloc   the compute allocator                                 *)
(*   compute_buffer  the compute backend buffer                            *)
(* inited is the set of the pointer fields ctx_gguf, ctx_data of bert_ctx  *)
(* that have been assigned (bert_ctx gives them no initializer).           *)
(***************************************************************************)
EmbeddingTensors ==
    {<<-1, "embeddings.word_embeddings.weight">>,
     <<-1, "embeddings.token_type_embeddings.weight">>,
     <<-1, "embeddings.position_embeddings.weight">>,
     <<-1, "embeddings.LayerNorm.weight">>,
     <<-1, "embeddings.LayerNorm.bias">>}

LayerTensors ==
    {"attention.output.LayerNorm.weight", "attention.output.LayerNorm.bias",
     "output.LayerNorm.weight", "output.LayerNorm.bias",
     "attention.self.query.weight", "attention.self.query.bias",
     "attention.self.key.weight", "attention.self.key.bias",
     "attention.self.value.weight", "attention.self.value.bias",
     "attention.output.dense.weight", "attention.output.dense.bias",
     "intermediate.dense.weight", "intermediate.dense.bias",
     "output.dense.weight", "output.dense.bias"}

\* the names get_tensor is called with, <<layer, name>> (-1: no layer)
required_tensors(n_layer) ==
    EmbeddingTensors \cup {<<l, s>> : l \in 0..(n_layer - 1), s \in LayerTensors}

\* the tensor directory of a file
file_tensors(f) ==
    required_tensors(f.n_layer) \
        (IF f.fault = "tensor"
         THEN {<<-1, "embeddings.word_embeddings.weight">>}
         ELSE IF f.fault = "tensor_layer"
         THEN {<<0, "attention.self.query.weight">>}
         ELSE {})

\* free(new_bert): the object was allocated with new, so the call is
\* undefined; the block is returned to the heap or the process is stopped
c_free_ctx(h) ==
    {[proc |-> "running", held |-> h \ {"bert_ctx"}],
     [proc |-> "crashed", held |-> h]}

\* bert_free: ggml_free(ctx_data), gguf_free(ctx_gguf), delete ctx.  Freeing
\* through a field that was never assigned is undefined: the call does
\* nothing (the pointer happens to be null) or the process is stopped.
bert_free(h, ini) ==
    LET freed == {"bert_ctx"}
                    \cup (IF "ctx_data" \in ini THEN {"ctx_data"} ELSE {})
                    \cup (IF "ctx_gguf" \in ini THEN {"gguf"} ELSE {})
    IN  {[proc |-> "running", held |-> h \ freed]}
            \cup (IF {"ctx_data", "ctx_gguf"} \subseteq ini THEN {}
                  ELSE {[proc |-> "crashed", held |-> h]})

file_hparams(f) ==
    [n_vocab |-> f.n_vocab, n_max_tokens |-> f.n_max_tokens,
     n_embd |-> f.n_embd, n_head |-> f.n_head, n_layer |-> f.n_layer]

Outcome(result, o, ini, hp, vc) ==
    [result  |-> IF o.proc = "crashed" THEN "abort" ELSE result,
     proc    |-> o.proc,
     held    |-> o.held,
     inited  |-> ini,
     hparams |-> hp,
     vocab   |-> vc,
     freed_with |-> << >>]

Running(h) == [proc |-> "running", held |-> h]

\* The outcomes of bert_load_from_file(f): "ok" (a bert_ctx is returned),
\* "null" (nullptr is returned), "throw" (an exception leaves the
\* function), "abort" (the process is stopped).
bert_load_from_file(f) ==
    LET hp == file_hparams(f)
        vc == load_vocab(f.tokens)
        before_data == {"gguf", "meta", "bert_ctx", "backend"}
        with_data   == before_data \cup {"ctx_data"}
        with_params == with_data \cup {"params_buffer", "alloc"}
        measured    == bert_build_graph(hp, <<[i \in 1..hp.n_max_tokens |-> 0]>>,
                                        TRUE)
    IN  IF f.fault = "open"
        THEN {Outcome("throw", Running({}), {}, NoHparams, EmptyVocab)}
        ELSE IF f.fault \in InfoKeys
        THEN {Outcome("throw", Running({"gguf", "meta"}), {},
                      NoHparams, EmptyVocab)}
        ELSE IF f.fault \in HparamKeys
        THEN {Outcome("throw", Running({"gguf", "meta", "bert_ctx"}), {},
                      NoHparams, EmptyVocab)}
        ELSE IF f.fault = "ggml_init"
        THEN {Outcome("null", o, {}, NoHparams, EmptyVocab) :
                  o \in c_free_ctx(before_data)}
        ELSE IF f.fault = "reopen"
        THEN {Outcome("null", o, {}, NoHparams, EmptyVocab) :
                  o \in c_free_ctx(with_data)}
        ELSE IF f.fault = "seek"
        THEN {[Outcome("null", o, {}, NoHparams, EmptyVocab)
                  EXCEPT !.freed_with = <<{"ctx_data"}>>] :
                  o \in bert_free(with_params, {"ctx_data"})}
        ELSE IF ~(required_tensors(hp.n_layer) \subseteq file_tensors(f))
        THEN {Outcome("throw", Running(with_params \ {"alloc"}),
                      {"ctx_data"}, NoHparams, EmptyVocab)}
        ELSE IF measured.gf # "graph"
        THEN {Outcome("abort",
                      [proc |-> "crashed",
                       held |-> (with_params \ {"alloc", "meta"})
                                    \cup {"compute_alloc"}],
                      {"ctx_data", "ctx_gguf"}, NoHparams, EmptyVocab)}
        ELSE {Outcome("ok",
                      Running((with_params \ {"alloc", "meta"})
                                  \cup {"compute_alloc", "compute_buffer"}),
                      {"ctx_data", "ctx_gguf"}, hp, vc)}

(***************************************************************************)
(* What the graph computes.  The values are symbolic: a hidden state names *)
(* what it was computed from, and two embeddings are the same number       *)
(* vector when they name the same computation.                             *)
(***************************************************************************)
\* attn_mask[i, j] of row b (0-based): the outer product of pad_mask with
\* itself, minus 1, times 100000, i.e. 0 or -100000
attn_mask(g, b, i, j) ==
    (g.pad_mask[b * g.L + i + 1] * g.pad_mask[b * g.L + j + 1] - 1) * 100000

\* the keys j that keep a non-zero weight in the softmax of query i: those
\* whose mask is the largest of the row (exp(-100000) is 0 in a float)
attended(g, b, i) ==
    {j \in 0..(g.L - 1) :
        \A j2 \in 0..(g.L - 1) : attn_mask(g, b, i, j) >= attn_mask(g, b, i, j2)}

RECURSIVE hidden(_, _, _, _)
\* the hidden state of position i of row b after il layers: the embedding
\* of (token, position) for il = 0, then self-attention over the attended
\* keys; every other operation of a layer works on one position
hidden(g, b, i, il) ==
    IF il = 0
    THEN <<g.token_layer[b * g.L + i + 1], g.positions[b * g.L + i + 1]>>
    ELSE [self |-> hidden(g, b, i, il - 1),
          keys |-> {hidden(g, b, j, il - 1) : j \in attended(g, b, i)}]

\* the pooler and the normalizer for row b: the positions with a non-zero
\* weight in sum, each with its weight, divided by the length of the pooled
\* vector; a row without any weighted position pools to the zero vector,
\* and 0 / sqrt(0) is NaN
embedding(g, b, n_layer) ==
    LET weighted == {i \in 0..(g.L - 1) : g.sum[b * g.L + i + 1] # 0}
    IN  [pooled |-> {<<hidden(g, b, i, n_layer), g.sum[b * g.L + i + 1]>> :
                        i \in weighted},
         l2     |-> IF weighted = {} THEN "nan" ELSE "one"]

\* what is in the caller's buffer for a row the program did not compute
NoEmbedding == [pooled |-> {}, l2 |-> "undefined"]

\* the tensors bert_build_graph allocates from the compute allocator
InputTensors ==
    {"token_layer", "pad_mask", "positions", "sum", "token_types"}

\* a reset that keeps what the allocator holds
allocr_keep(allocs) == allocs

\* ggml_allocr_reset
ggml_allocr_reset(allocs) == {}

(***************************************************************************)
(* Forward pass                                                            *)
(***************************************************************************)
\* The element counts of the tensors a graph for B rows of length L takes
\* from the compute allocator, by shape: the input tensors ([L * B]), the
\* hidden states ([E, L, B]) and, with at least one layer, the attention
\* scores ([L, L, H * B]).  Alignment is left out.
activation_sizes(hparams, B, L) ==
    [inputs |-> L * B,
     hidden |-> hparams.n_embd * L * B,
     scores |-> IF hparams.n_layer = 0 THEN 0
                ELSE L * L * hparams.n_head * B]

\* the measurement at load: one row of n_max_tokens ids
measured_sizes(hparams) == activation_sizes(hparams, 1, hparams.n_max_tokens)

ActivationShapes == {"inputs", "hidden", "scores"}

\* The outcomes of allocating the graph in the compute buffer, which has
\* the size the measurement gave: the graph fits when no tensor is larger
\* than at the measurement, it does not when none is smaller and one is
\* larger, and otherwise the answer is the allocator's (either outcome).
\* An allocation that finds no space stops the process.
ggml_allocr_alloc_graph(hparams, B, L) ==
    LET need == activation_sizes(hparams, B, L)
        have == measured_sizes(hparams)
    IN  IF \A sh \in ActivationShapes : need[sh] <= have[sh] THEN {"ok"}
        ELSE IF \A sh \in ActivationShapes : need[sh] >= have[sh]
        THEN {"no_space"}
        ELSE {"ok", "no_space"}

\* The outcomes of bert_forward_batch on a live context: the state of the
\* process, the graph built, the caller's output buffer and the calls made.
\* bert_build_graph returns nullptr for a batch that is too long, and
\* bert_forward_batch uses the pointer unchecked: undefined behaviour, which
\* stops the process or runs on with whatever the null graph yields.  A
\* graph that does not fit the compute buffer stops the process at its
\* allocation.
bert_forward_batch(hparams, batch) ==
    LET g == bert_build_graph(hparams, batch, FALSE)
    IN  IF g.gf = "graph"
        THEN {IF a = "ok"
              THEN [proc |-> "running", graph |-> g, out |-> "embeddings",
                    embeddings |-> [b \in 1..g.B |->
                                       embedding(g, b - 1, hparams.n_layer)],
                    alloc_graph |-> a,
                    steps |-> <<"reset", "build", "alloc_graph", "compute",
                                "copy">>]
              ELSE [proc |-> "crashed", graph |-> g, out |-> "untouched",
                    embeddings |-> [b \in 1..g.B |-> NoEmbedding],
                    alloc_graph |-> a,
                    steps |-> <<"reset", "build", "alloc_graph">>] :
                  a \in ggml_allocr_alloc_graph(hparams, g.B, g.L)}
        ELSE IF g.gf = "null"
        THEN {[proc |-> "crashed", graph |-> g, out |-> "untouched",
               embeddings |-> [b \in 1..g.B |-> NoEmbedding],
               alloc_graph |-> "null",
               steps |-> <<"reset", "build", "alloc_graph">>],
              [proc |-> "running", graph |-> g, out |-> "garbage",
               embeddings |-> [b \in 1..g.B |-> NoEmbedding],
               alloc_graph |-> "null",
               steps |-> <<"reset", "build", "alloc_graph", "compute",
                           "copy">>]}
        ELSE {[proc |-> "crashed", graph |-> g, out |-> "untouched",
               embeddings |-> [b \in 1..g.B |-> NoEmbedding],
               alloc_graph |-> "none",
               steps |-> <<"reset", "build">>]}

\* the contents of the compute allocator after forward pass number call
\* with outcome o: the reset empties it, bert_build_graph allocates the
\* input tensors (it returns before that when the batch is too long), and
\* ggml_allocr_alloc_graph allocates the nodes of the graph
compute_alloc_after(allocs, o, call) ==
    ggml_allocr_reset(allocs)
        \cup (IF o.graph.gf \in {"graph", "abort"}
              THEN {<<call, tensor>> : tensor \in InputTensors}
              ELSE {})
        \cup (IF o.alloc_graph = "ok" THEN {<<call, "nodes">>} ELSE {})

\* the batch bert_encode_batch builds: every text tokenized with cap N
encode_tokens(vocab, hparams, texts) ==
    [i \in 1..Len(texts) |->
        bert_tokenize(vocab, texts[i], hparams.n_max_tokens)]

(***************************************************************************)
(* State                                                                   *)
(***************************************************************************)
VARIABLES
    proc,      \* "running", or "crashed" once the process has been stopped
    ctx,       \* the caller's handle: "none", "live", "freed"
    file,      \* the file the last load was given
    loaded,    \* the outcome of the load: "none" before it
    hparams,   \* ctx->model.hparams
    vocab,     \* ctx->vocab
    held,      \* the resources the process holds
    inited,    \* the assigned pointer fields of the bert_ctx
    last,      \* the last call on the context: arguments and results
    run,       \* a call of bert_tokenize in progress: its position and locals
    compute    \* ctx->compute_alloc: the forward passes made so far and the
               \* allocations it holds, each <<pass, tensor>>

vars == <<proc, ctx, file, loaded, hparams, vocab, held, inited, last, run,
          compute>>

NoCall ==
    [op |-> "none", texts |-> << >>, n_max_tokens |-> 0, tokens |-> << >>,
     batch |-> << >>, graph |-> NoGraph, out |-> "untouched",
     steps |-> << >>, norm |-> << >>, words |-> << >>,
     embeddings |-> << >>, freed_with |-> << >>, alloc_graph |-> "none"]

NoCompute == [calls |-> 0, allocs |-> {}]

\* the locals of bert_tokenize; pc is the position of the call: "idle" (no
\* call), "presplit" (the loop of lines 345-363), "split" (367-378), "word"
\* (the head of the for loop, 391), "scan" (the while of 401-422), "done"
\* (returned).  w is the 0-based index of the word the for loop is at.
NoRun ==
    [pc |-> "idle", text |-> << >>, n_max_tokens |-> 0, ori_str |-> << >>,
     new_str |-> << >>, i |-> 0, l |-> 0, r |-> 0, words |-> << >>, w |-> 0,
     t |-> 0, prev_t |-> 0, tokens |-> << >>, token_map |-> "token_to_id"]

Init ==
    /\ run = NoRun
    /\ compute = NoCompute
    /\ proc = "running"
    /\ ctx = "none"
    /\ file = NoFile
    /\ loaded = "none"
    /\ hparams = NoHparams
    /\ vocab = EmptyVocab
    /\ held = {}
    /\ inited = {}
    /\ last = NoCall

(***************************************************************************)
(* Inputs                                                                  *)
(***************************************************************************)
\* 'a', 'b', ' ', '.'
TextBytes == {97, 98, 32, 46}

Texts == SeqsUpTo(TextBytes, MaxTextLen)

Caps == 0..MaxCap

\* 'A', 'a', ' ', '.', the lead byte 0xC3 of the accent map's keys, the
\* second bytes of "A grave" (0x80) and "e acute" (0xA9), and the bytes of
\* U+4E00 (0xE4 0xB8 0x80)
RichBytes == {65, 97, 32, 46, 195, 128, 169, 228, 184}

RichTexts == SeqsUpTo(RichBytes, MaxRichLen)

\* the two-byte UTF-8 encoding of a codepoint in U+0080..U+07FF
utf8_2(cp) == <<192 + (cp \div 64), 128 + (cp % 64)>>

\* every codepoint U+00C0..U+00FF on its own
Latin1Texts == {utf8_2(cp) : cp \in 192..255}

\* the texts of a session: "", "a", "a a", "b."
SessionTexts == {<< >>, <<97>>, <<97, 32, 97>>, <<98, 46>>}

EncodeBatches == SeqsUpTo(SessionTexts, MaxBatch) \ {<< >>}

\* a row of n ids: CLS, then 2, 3, ..., then SEP
row(n) ==
    [i \in 1..n |-> IF i = 1 THEN cls_tok_id
                    ELSE IF i = n THEN sep_tok_id ELSE i]

ForwardBatches ==
    SeqsUpTo({row(n) : n \in 1..MaxRowLen}, MaxBatch) \ {<< >>}

(***************************************************************************)
(* Actions: one per call of the API                                        *)
(***************************************************************************)
Load(files) ==
    /\ proc = "running"
    /\ ctx = "none"
    /\ loaded = "none"
    /\ \E f \in files : \E o \in bert_load_from_file(f) :
        /\ proc' = o.proc
        /\ ctx' = IF o.result = "ok" THEN "live" ELSE "none"
        /\ file' = f
        /\ loaded' = o.result
        /\ hparams' = o.hparams
        /\ vocab' = o.vocab
        /\ held' = o.held
        /\ inited' = o.inited
        /\ last' = [NoCall EXCEPT !.op = "load",
                                  !.freed_with = o.freed_with]
    /\ UNCHANGED <<run, compute>>

Free ==
    /\ proc = "running"
    /\ ctx = "live"
    /\ \E o \in bert_free(held, inited) :
        /\ proc' = o.proc
        /\ held' = o.held
    /\ ctx' = "freed"
    /\ last' = [NoCall EXCEPT !.op = "free", !.freed_with = <<inited>>]
    /\ UNCHANGED <<file, loaded, hparams, vocab, inited, run, compute>>

Tokenize(texts, caps) ==
    /\ proc = "running"
    /\ ctx = "live"
    /\ \E text \in texts, n_max_tokens \in caps :
        last' = [NoCall EXCEPT !.op = "tokenize",
                               !.texts = <<text>>,
                               !.n_max_tokens = n_max_tokens,
                               !.words = text_words(text),
                               !.tokens = bert_tokenize(vocab, text,
                                                        n_max_tokens)]
    /\ UNCHANGED <<proc, ctx, file, loaded, hparams, vocab, held, inited, run,
                   compute>>

\* strip_accents and bert_normalize_prompt are free functions: they need
\* no context
StripAccents(texts) ==
    /\ proc = "running"
    /\ \E text \in texts :
        last' = [NoCall EXCEPT !.op = "strip_accents",
                               !.texts = <<text>>,
                               !.norm = strip_accents(text)]
    /\ UNCHANGED <<proc, ctx, file, loaded, hparams, vocab, held, inited, run,
                   compute>>

NormalizePrompt(texts) ==
    /\ proc = "running"
    /\ \E text \in texts :
        last' = [NoCall EXCEPT !.op = "normalize",
                               !.texts = <<text>>,
                               !.norm = bert_normalize_prompt(text)]
    /\ UNCHANGED <<proc, ctx, file, loaded, hparams, vocab, held, inited, run,
                   compute>>

ForwardBatch ==
    /\ proc = "running"
    /\ ctx = "live"
    /\ compute.calls < MaxCalls
    /\ \E batch \in ForwardBatches :
       \E o \in bert_forward_batch(hparams, batch) :
        /\ proc' = o.proc
        /\ last' = [NoCall EXCEPT !.op = "forward_batch",
                                  !.batch = batch,
                                  !.graph = o.graph,
                                  !.out = o.out,
                                  !.embeddings = o.embeddings,
                                  !.alloc_graph = o.alloc_graph,
                                  !.steps = o.steps]
        /\ compute' = [calls  |-> compute.calls + 1,
                       allocs |-> compute_alloc_after(compute.allocs, o,
                                                      compute.calls + 1)]
    /\ UNCHANGED <<ctx, file, loaded, hparams, vocab, held, inited, run>>

EncodeBatch ==
    /\ proc = "running"
    /\ ctx = "live"
    /\ compute.calls < MaxCalls
    /\ \E texts \in EncodeBatches :
       \E o \in bert_forward_batch(hparams,
                                   encode_tokens(vocab, hparams, texts)) :
        /\ proc' = o.proc
        /\ compute' = [calls  |-> compute.calls + 1,
                       allocs |-> compute_alloc_after(compute.allocs, o,
                                                      compute.calls + 1)]
        /\ last' = [NoCall EXCEPT !.op = "encode_batch",
                                  !.texts = texts,
                                  !.n_max_tokens = hparams.n_max_tokens,
                                  !.batch = encode_tokens(vocab, hparams,
                                                          texts),
                                  !.graph = o.graph,
                                  !.out = o.out,
                                  !.embeddings = o.embeddings,
                                  !.alloc_graph = o.alloc_graph,
                                  !.steps = o.steps]
    /\ UNCHANGED <<ctx, file, loaded, hparams, vocab, held, inited, run>>

\* a session on one well-formed model: load, then any calls, then free
Next ==
    \/ Load(SessionFiles)
    \/ Tokenize(SessionTexts, Caps)
    \/ ForwardBatch
    \/ EncodeBatch
    \/ Free

Spec == Init /\ [][Next]_vars

\* the loader on every file within the bounds, and the release of its result
NextLoad ==
    \/ Load(Files)
    \/ Free

SpecLoad == Init /\ [][NextLoad]_vars

\* the tokenizer on every text and cap within the bounds, as the first call
\* on a context loaded from a file with any token list of word pieces
InitTok ==
    \E f \in TokenizerFiles : \E o \in bert_load_from_file(f) :
        /\ proc = o.proc
        /\ ctx = "live"
        /\ file = f
        /\ loaded = o.result
        /\ hparams = o.hparams
        /\ vocab = o.vocab
        /\ held = o.held
        /\ inited = o.inited
        /\ last = [NoCall EXCEPT !.op = "load"]
        /\ run = NoRun
        /\ compute = NoCompute

NextTok ==
    /\ last.op = "load"
    /\ Tokenize(Texts, Caps)

SpecTok == InitTok /\ [][NextTok]_vars

\* the normalizer and the word splitter on every text within the bounds, as
\* the first call after the load of a model whose token list is "a"
TextFiles == MakeFiles({"none"}, {103}, {3}, {<<<<97>>>>}, {<<2, 1>>}, {1})

InitText ==
    \E f \in TextFiles : \E o \in bert_load_from_file(f) :
        /\ proc = o.proc
        /\ ctx = "live"
        /\ file = f
        /\ loaded = o.result
        /\ hparams = o.hparams
        /\ vocab = o.vocab
        /\ held = o.held
        /\ inited = o.inited
        /\ last = [NoCall EXCEPT !.op = "load"]
        /\ run = NoRun
        /\ compute = NoCompute

NextText ==
    /\ last.op = "load"
    /\ \/ StripAccents(RichTexts \cup Latin1Texts)
       \/ NormalizePrompt(RichTexts)
       \/ Tokenize(RichTexts, {MaxCap})

SpecText == InitText /\ [][NextText]_vars

(***************************************************************************)
(* bert_tokenize, one loop iteration at a time                             *)
(***************************************************************************)
RunOnly == UNCHANGED <<proc, ctx, file, loaded, hparams, vocab, held, inited,
                       last, compute>>

\* the word the for loop is at
run_word == run.words[run.w + 1]

\* the map token_map points to
run_map == IF run.token_map = "token_to_id" THEN vocab.token_to_id
           ELSE vocab.subword_token_to_id

\* a search that takes the shortest substring found in the map
match_shortest(token_map, word, i, j) ==
    LET hits == {e \in (i + 1)..j : substr(word, i, e - i) \in DOMAIN token_map}
    IN  IF hits = {} THEN i ELSE CHOOSE e \in hits : \A x \in hits : e <= x

RECURSIVE match_from(_, _, _, _)
\* the "while (j > i)" loop from j down: the j of the first substring
\* word[i..j) found in the map, or i when the loop runs out
match_from(token_map, word, i, j) ==
    IF j <= i THEN i
    ELSE IF substr(word, i, j - i) \in DOMAIN token_map THEN j
    ELSE match_from(token_map, word, i, j - 1)

\* lines 337-344: the call starts, the text is normalized
TokenizeBegin(texts, caps) ==
    /\ proc = "running"
    /\ ctx = "live"
    /\ run.pc = "idle"
    /\ \E text \in texts, n_max_tokens \in caps :
        run' = [NoRun EXCEPT !.pc = "presplit",
                             !.text = text,
                             !.n_max_tokens = n_max_tokens,
                             !.ori_str = bert_normalize_prompt(text)]
    /\ RunOnly

\* lines 345-363: one iteration of the pre-split loop
PreSplitStep ==
    /\ run.pc = "presplit"
    /\ run.i < Len(run.ori_str)
    /\ LET c == at(run.ori_str, run.i)
           utf_char_len == utf8_len(c)
       IN  IF utf_char_len = 1 /\ ispunct(c)
           THEN run' = [run EXCEPT !.new_str = @ \o <<32, c, 32>>,
                                   !.i = @ + 1]
           ELSE IF utf_char_len = 3
                     /\ is_chinese_char(substr(run.ori_str, run.i, 3))
           THEN run' = [run EXCEPT
                          !.new_str = @ \o <<32>>
                                        \o substr(run.ori_str, run.i, 3)
                                        \o <<32>>,
                          !.i = @ + 3]
           ELSE run' = [run EXCEPT !.new_str = Append(@, c), !.i = @ + 1]
    /\ RunOnly

\* lines 345, 365-366: the pre-split loop ends
PreSplitDone ==
    /\ run.pc = "presplit"
    /\ run.i >= Len(run.ori_str)
    /\ run' = [run EXCEPT !.pc = "split", !.l = 0, !.r = 0]
    /\ RunOnly

\* lines 367-378: one iteration of the whitespace split
SplitStep ==
    /\ run.pc = "split"
    /\ run.r < Len(run.new_str)
    /\ IF isspace(at(run.new_str, run.r))
       THEN run' = [run EXCEPT
                      !.words = IF run.r > run.l
                                THEN Append(@, substr(run.new_str, run.l,
                                                      run.r - run.l))
                                ELSE @,
                      !.l = run.r + 1,
                      !.r = run.r + 1]
       ELSE run' = [run EXCEPT !.r = @ + 1]
    /\ RunOnly

\* lines 367, 379-388: the split ends, the last word and CLS are pushed
SplitDone ==
    /\ run.pc = "split"
    /\ run.r >= Len(run.new_str)
    /\ run' = [run EXCEPT
                 !.pc = "word",
                 !.words = IF run.r > run.l
                           THEN Append(@, substr(run.new_str, run.l,
                                                 run.r - run.l))
                           ELSE @,
                 !.w = 0,
                 !.t = 1,
                 !.prev_t = 0,
                 !.tokens = <<cls_tok_id>>]
    /\ RunOnly

\* lines 391-399: the for loop takes the next word
WordBegin ==
    /\ run.pc = "word"
    /\ run.w < Len(run.words)
    /\ IF Len(run_word) = 0
       THEN run' = [run EXCEPT !.w = @ + 1]
       ELSE run' = [run EXCEPT !.pc = "scan",
                               !.prev_t = run.t,
                               !.i = 0,
                               !.token_map = "token_to_id"]
    /\ RunOnly

\* lines 401-413: an iteration of the scan that finds a substring in the map
ScanEmit ==
    /\ run.pc = "scan"
    /\ run.i < Len(run_word)
    /\ run.t < run.n_max_tokens - 1
    /\ LET j == match_from(run_map, run_word, run.i, Len(run_word))
       IN  /\ j > run.i
           /\ run' = [run EXCEPT
                        !.tokens = Append(@, run_map[substr(run_word, run.i,
                                                            j - run.i)]),
                        !.t = @ + 1,
                        !.i = j,
                        !.token_map = "subword_token_to_id"]
    /\ RunOnly

\* a skip that leaves the cursor where it is
ScanSkipInPlace ==
    /\ run.pc = "scan"
    /\ run.i < Len(run_word)
    /\ run.t < run.n_max_tokens - 1
    /\ match_from(run_map, run_word, run.i, Len(run_word)) = run.i
    /\ run' = [run EXCEPT !.token_map = "subword_token_to_id"]
    /\ RunOnly

\* lines 401-421: an iteration of the scan that finds nothing at the cursor
ScanSkip ==
    /\ run.pc = "scan"
    /\ run.i < Len(run_word)
    /\ run.t < run.n_max_tokens - 1
    /\ match_from(run_map, run_word, run.i, Len(run_word)) = run.i
    /\ run' = [run EXCEPT !.token_map = "subword_token_to_id", !.i = @ + 1]
    /\ RunOnly

\* an end of the scan that pushes UNK whenever the word was not used up
ScanEndUnkIfCut ==
    /\ run.pc = "scan"
    /\ \/ run.i >= Len(run_word)
       \/ run.t >= run.n_max_tokens - 1
    /\ IF run.i < Len(run_word)
       THEN run' = [run EXCEPT !.pc = "word",
                               !.w = @ + 1,
                               !.tokens = Append(@, unk_tok_id),
                               !.t = @ + 1]
       ELSE run' = [run EXCEPT !.pc = "word", !.w = @ + 1]
    /\ RunOnly

\* lines 401-403, 423-429: the scan of the word ends (the word is used up or
\* the cap is reached); UNK is pushed when the word added no token
ScanEnd ==
    /\ run.pc = "scan"
    /\ \/ run.i >= Len(run_word)
       \/ run.t >= run.n_max_tokens - 1
    /\ IF run.prev_t = run.t
       THEN run' = [run EXCEPT !.pc = "word",
                               !.w = @ + 1,
                               !.tokens = Append(@, unk_tok_id),
                               !.t = @ + 1]
       ELSE run' = [run EXCEPT !.pc = "word", !.w = @ + 1]
    /\ RunOnly

\* lines 391, 430-434: the for loop ends, SEP is pushed, the call returns
TokenizeReturn ==
    /\ run.pc = "word"
    /\ run.w >= Len(run.words)
    /\ run' = [run EXCEPT !.pc = "done",
                          !.tokens = Append(@, sep_tok_id),
                          !.t = @ + 1]
    /\ RunOnly

\* "a" / "a", "##b" / "ab", "##b", "a"
RunFiles ==
    MakeFiles({"none"}, {103}, {3},
              {<<<<97>>>>, <<<<97>>, <<35, 35, 98>>>>,
               <<<<97, 98>>, <<35, 35, 98>>, <<97>>>>},
              {<<2, 1>>}, {1})

\* every text over 'a', 'b', ' ', '.', and "A grave", U+4E00, "A." as texts
\* the normalizer and the pre-split change
RunTexts == Texts \cup {<<195, 128>>, <<228, 184, 128>>, <<65, 46>>}

InitRun ==
    \E f \in RunFiles : \E o \in bert_load_from_file(f) :
        /\ proc = o.proc
        /\ ctx = "live"
        /\ file = f
        /\ loaded = o.result
        /\ hparams = o.hparams
        /\ vocab = o.vocab
        /\ held = o.held
        /\ inited = o.inited
        /\ last = [NoCall EXCEPT !.op = "load"]
        /\ run = NoRun
        /\ compute = NoCompute

NextRun ==
    \/ TokenizeBegin(RunTexts, Caps)
    \/ PreSplitStep
    \/ PreSplitDone
    \/ SplitStep
    \/ SplitDone
    \/ WordBegin
    \/ ScanEmit
    \/ ScanSkip
    \/ ScanEnd
    \/ TokenizeReturn

\* one call of bert_tokenize, step by step
SpecRun == InitRun /\ [][NextRun]_vars

\* the call runs on one thread that is never stopped: a step that can be
\* taken is taken
SpecRunFair == SpecRun /\ WF_vars(NextRun)

(***************************************************************************)
(* Properties                                                              *)
(***************************************************************************)
Tokenized == last.op = "tokenize"

First(seq) == seq[1]

Final(seq) == seq[Len(seq)]

\* C1: for every cap n_max >= 2 the sequence bert_tokenize returns has
\* between 2 and n_max ids, CLS and SEP included.
C1_LengthWithinCap ==
    (Tokenized /\ last.n_max_tokens >= 2)
        => /\ Len(last.tokens) >= 2
           /\ Len(last.tokens) <= last.n_max_tokens

\* C2: for every text and every cap, the first id bert_tokenize returns is
\* CLS (101) and the last is SEP (102), two distinct positions; truncation
\* neither drops the SEP nor replaces the CLS.
C2_FramedByClsAndSep ==
    Tokenized
        => /\ Len(last.tokens) >= 2
           /\ First(last.tokens) = cls_tok_id
           /\ Final(last.tokens) = sep_tok_id

\* C2, witness: a call that ran into its cap with words still to scan (the
\* text has at least two words, all of them in the whole-word map, and the
\* result fills the cap), framed by CLS and SEP.
C2_TruncatedYetFramed ==
    /\ Tokenized
    /\ last.n_max_tokens >= 2
    /\ Len(text_words(last.texts[1])) >= 2
    /\ \A k \in DOMAIN text_words(last.texts[1]) :
        text_words(last.texts[1])[k] \in DOMAIN vocab.token_to_id
    /\ Len(last.tokens) >= last.n_max_tokens
    /\ First(last.tokens) = cls_tok_id
    /\ Final(last.tokens) = sep_tok_id

\* C3: the batch bert_encode_batch hands to the graph builder is never
\* longer than n_max_tokens, so the builder never rejects it.
C3_EncodeBatchFits ==
    last.op = "encode_batch"
        => /\ max_len(last.batch) <= hparams.n_max_tokens
           /\ last.graph.gf # "null"

\* C4: a forward pass on a batch longer than n_max_tokens is rejected
\* before any graph allocation or execution, writes nothing to the caller's
\* buffer and leaves the context usable.
C4_RejectedForwardLeavesCtxUsable ==
    (last.op = "forward_batch" /\ max_len(last.batch) > hparams.n_max_tokens)
        => /\ proc = "running"
           /\ ctx = "live"
           /\ last.out = "untouched"
           /\ \A k \in DOMAIN last.steps :
                last.steps[k] \notin {"alloc_graph", "compute", "copy"}

\* C5: no context is returned for a file whose hidden width is not a
\* multiple of its head count.
C5_NoCtxUnlessHeadsDivideWidth ==
    ctx = "live" => hparams.n_embd % hparams.n_head = 0

\* C6: a load that fails (returns nullptr or throws) holds no resource
\* when it surfaces the failure.
C6_FailedLoadHoldsNothing ==
    (last.op = "load" /\ loaded \in {"null", "throw"}) => held = {}

\* C7: after bert_free on a context a successful load returned, the
\* parameter buffer, the compute buffer with its allocator, the tensor
\* metadata context and the container context are all released.
C7_FreeReleasesEverything ==
    (ctx = "freed" /\ proc = "running")
        => held \cap {"params_buffer", "compute_buffer", "compute_alloc",
                      "ctx_data", "gguf"} = {}

\* a token of the list whose original form begins with "##"
HasSubwordPrefix(word) == at(word, 0) = 35 /\ at(word, 1) = 35

\* C8: after a load, no key of the whole-word map begins with "##", and
\* every token "##w" of the list is a key w of the subword map and no key
\* of the whole-word map.
C8_PrefixedTokensOnlyInSubwordMap ==
    ctx = "live"
        => /\ \A w \in DOMAIN vocab.token_to_id : ~HasSubwordPrefix(w)
           /\ \A k \in DOMAIN file.tokens :
                HasSubwordPrefix(file.tokens[k])
                    => /\ substr(file.tokens[k], 2, Len(file.tokens[k]))
                              \in DOMAIN vocab.subword_token_to_id
                       /\ file.tokens[k] \notin DOMAIN vocab.token_to_id

\* the 0-based index of the first entry of the list equal to word
FirstIndex(token_list, word) ==
    CHOOSE i \in 0..(Len(token_list) - 1) :
        /\ token_list[i + 1] = word
        /\ \A j \in 0..(i - 1) : token_list[j + 1] # word

\* C9: after a load, whole[w] is the index of the first entry equal to w
\* and sub[w] is the index of the first entry equal to "##" + w.
C9_FirstOccurrenceKept ==
    ctx = "live"
        => /\ \A w \in DOMAIN vocab.token_to_id :
                vocab.token_to_id[w] = FirstIndex(file.tokens, w)
           /\ \A w \in DOMAIN vocab.subword_token_to_id :
                vocab.subword_token_to_id[w]
                    = FirstIndex(file.tokens, <<35, 35>> \o w)

\* C10: every id of every batch bert_encode_batch hands to the graph
\* builder, and every id the builder writes into the token tensor (padding
\* included), is at least 0 and less than n_vocab.
C10_BatchIdsBelowVocabSize ==
    last.op = "encode_batch"
        => /\ \A b \in DOMAIN last.batch : \A i \in DOMAIN last.batch[b] :
                last.batch[b][i] \in 0..(hparams.n_vocab - 1)
           /\ \A k \in DOMAIN last.graph.token_layer :
                last.graph.token_layer[k] \in 0..(hparams.n_vocab - 1)

\* C11: bert_normalize_prompt is idempotent on every byte string, accented
\* letters, uppercase letters and malformed or truncated UTF-8 included:
\* normalizing the result of a call again leaves it unchanged.
C11_NormalizeIdempotent ==
    last.op = "normalize" => bert_normalize_prompt(last.norm) = last.norm

\* C11, witness: a call on a text with an accented capital followed by a
\* truncated multi-byte sequence, which the call changed.
C11_AccentedAndTruncated ==
    /\ last.op = "normalize"
    /\ Len(last.texts[1]) = 3
    /\ SubSeq(last.texts[1], 1, 2) = <<195, 128>>
    /\ last.texts[1][3] \in {195, 228}
    /\ last.norm = <<97, last.texts[1][3]>>
    /\ bert_normalize_prompt(last.norm) = last.norm

\* the ASCII base letter of the Latin-1 letters U+00C0..U+00FF that are an
\* A, E, I, O, U, Y, C or N with a grave, acute, circumflex, tilde,
\* diaeresis, ring or cedilla; 0 for the other codepoints of the range
Latin1Base(cp) ==
    IF cp \in 192..197 THEN 65
    ELSE IF cp = 199 THEN 67
    ELSE IF cp \in 200..203 THEN 69
    ELSE IF cp \in 204..207 THEN 73
    ELSE IF cp = 209 THEN 78
    ELSE IF cp \in 210..214 THEN 79
    ELSE IF cp \in 217..220 THEN 85
    ELSE IF cp = 221 THEN 89
    ELSE IF cp \in 224..229 THEN 97
    ELSE IF cp = 231 THEN 99
    ELSE IF cp \in 232..235 THEN 101
    ELSE IF cp \in 236..239 THEN 105
    ELSE IF cp = 241 THEN 110
    ELSE IF cp \in 242..246 THEN 111
    ELSE IF cp \in 249..252 THEN 117
    ELSE IF cp \in {253, 255} THEN 121
    ELSE 0

\* no two adjacent bytes of s are a key of the accent map
NoAccentKey(s) ==
    \A k \in 1..(Len(s) - 1) : accentMap(SubSeq(s, k, k + 1)) = 0

\* C12: strip_accents folds every accented A, E, I, O, U, Y, C, N of
\* U+00C0..U+00FF, upper or lower case, to its ASCII base letter, and
\* returns a text without any key of the accent map unchanged.
C12_FoldsEveryAccentedLatin1Letter ==
    last.op = "strip_accents"
        => /\ \A cp \in 192..255 :
                (last.texts[1] = utf8_2(cp) /\ Latin1Base(cp) # 0)
                    => last.norm = <<Latin1Base(cp)>>
           /\ NoAccentKey(last.texts[1]) => last.norm = last.texts[1]

\* the step-by-step call and the function agree on the words and the ids
StepsAgreeWithFunction ==
    run.pc = "done"
        => /\ run.words = text_words(run.text)
           /\ run.tokens = bert_tokenize(vocab, run.text, run.n_max_tokens)

\* every iteration of a loop of bert_tokenize moves its cursor forward
LoopsMakeProgress ==
    /\ (run.pc = "presplit" /\ run'.pc = "presplit") => run'.i > run.i
    /\ (run.pc = "split" /\ run'.pc = "split") => run'.r > run.r
    /\ (run.pc = "scan" /\ run'.pc = "scan") => run'.i > run.i
    /\ (run.pc \in {"word", "scan"} /\ run'.pc \in {"word", "scan"})
            => run'.w >= run.w
    /\ (run.pc = "word" /\ run'.pc = "word") => run'.w > run.w

\* C13: bert_tokenize never fails and always terminates: for every
\* vocabulary, text and cap, every iteration of the pre-split loop, of the
\* whitespace split and of the greedy scan makes progress, and a call that
\* has started returns a sequence of ids.
C13_TokenizeTerminates ==
    /\ [][LoopsMakeProgress]_vars
    /\ (run.pc = "presplit")
            ~> (run.pc = "done" /\ \A k \in DOMAIN run.tokens :
                                        run.tokens[k] \in Nat)

\* C13, witness: a call on a text of two words that match nothing in the
\* vocabulary has returned.
C13_ReturnedOnUnmatchedText ==
    /\ run.pc = "done"
    /\ Len(run.words) = 2
    /\ run.n_max_tokens = MaxCap
    /\ run.tokens = <<cls_tok_id, unk_tok_id, unk_tok_id, sep_tok_id>>

\* the map the scan looks in at cursor i of a word
ActiveMap(i) ==
    IF i = 0 THEN vocab.token_to_id ELSE vocab.subword_token_to_id

\* the ends j of the substrings word[i..j) that are keys of the active map
Candidates(word, i) ==
    {j \in (i + 1)..Len(word) : SubSeq(word, i + 1, j) \in DOMAIN ActiveMap(i)}

\* one iteration of the scan: the longest candidate is emitted and the cursor
\* moves to its end, or nothing is emitted and the cursor moves by one byte
GreedyIteration ==
    (run.pc = "scan" /\ run'.pc = "scan")
        => LET word == run.words[run.w + 1]
               c == Candidates(word, run.i)
           IN  IF c # {}
               THEN /\ run'.tokens
                        = Append(run.tokens,
                                 ActiveMap(run.i)[SubSeq(word, run.i + 1,
                                                         SetMax(c))])
                    /\ run'.i = SetMax(c)
               ELSE /\ run'.tokens = run.tokens
                    /\ run'.i = run.i + 1

\* C17: in the greedy scan of a word every emitted id is the id of the
\* longest substring at the cursor that is a key of the active map; the
\* active map is the whole-word map at the start of the word only and the
\* subword map after the first emit or the first skipped byte; an emit
\* moves the cursor to the end of the match, a miss moves it by one byte
\* and emits nothing.
C17_GreedyLongestMatch ==
    /\ [](run.pc = "scan"
            => (run.token_map = "token_to_id" <=> run.i = 0))
    /\ [][GreedyIteration]_vars

\* C17, witness: the scan of a word has emitted a whole-word token and then
\* a subword token.
C17_WholeThenSubword ==
    /\ run.pc = "scan"
    /\ run.token_map = "subword_token_to_id"
    /\ Len(run.tokens) = run.prev_t + 2
    /\ run.tokens[run.prev_t + 1] \in DOMAIN vocab._id_to_token
    /\ run.tokens[run.prev_t + 2] \in DOMAIN vocab._id_to_subword_token

\* the end of the scan of a word: one UNK exactly when the word added no id
WordEndsWithUnkIffNothingEmitted ==
    (run.pc = "scan" /\ run'.pc = "word")
        => run'.tokens = IF Len(run.tokens) = run.prev_t
                         THEN Append(run.tokens, unk_tok_id)
                         ELSE run.tokens

\* C18: a word gets exactly one UNK if and only if its scan emitted no
\* token; a word that emitted a token gets none, and the bytes skipped in
\* it add nothing to the output.
C18_OneUnkIffNothingEmitted ==
    /\ [](run.pc = "scan"
            => /\ run.prev_t <= Len(run.tokens)
               /\ \A k \in (run.prev_t + 1)..Len(run.tokens) :
                    run.tokens[k] # unk_tok_id)
    /\ [][(run.pc = "word" /\ run'.pc = "scan")
            => run'.prev_t = Len(run.tokens)]_vars
    /\ [][WordEndsWithUnkIffNothingEmitted]_vars

\* C18, witness: a word whose first byte was skipped and whose second byte
\* was emitted has ended without an UNK.
C18_SkippedByteLeavesNoTrace ==
    /\ run.pc = "word"
    /\ run.w = 1
    /\ run.words = <<<<98, 98>>>>
    /\ Len(run.tokens) = 2
    /\ run.tokens[2] # unk_tok_id

\* bytes k, k + 1, k + 2 of s are the UTF-8 encoding of a codepoint in one
\* of the CJK ranges a 3-byte sequence can reach: U+3000..303F,
\* U+3400..4DBF, U+4E00..9FFF, U+F900..FAFF, U+FF00..FFEF
CjkAt(s, k) ==
    /\ k + 2 <= Len(s)
    /\ s[k] \in 224..239
    /\ s[k + 1] \in 128..191
    /\ s[k + 2] \in 128..191
    /\ LET cp == (s[k] - 224) * 4096 + (s[k + 1] - 128) * 64 + (s[k + 2] - 128)
       IN  \/ cp \in 12288..12351
           \/ cp \in 13312..19903
           \/ cp \in 19968..40959
           \/ cp \in 63744..64255
           \/ cp \in 65280..65519

RECURSIVE Flatten(_)
Flatten(seqs) ==
    IF seqs = << >> THEN << >> ELSE Head(seqs) \o Flatten(Tail(seqs))

NotSpace(c) == ~isspace(c)

\* C19: after pre-split and whitespace split every word is non-empty and
\* has no whitespace; every punctuation byte and every 3-byte CJK codepoint
\* is a word of its own and no other word contains one; the other bytes of
\* the normalized text are in the words unchanged and in order.
C19_WordsIsolatePunctAndCjk ==
    last.op = "tokenize"
        => LET N == bert_normalize_prompt(last.texts[1])
               W == last.words
           IN  /\ \A k \in DOMAIN W :
                    /\ W[k] # << >>
                    /\ \A x \in DOMAIN W[k] : ~isspace(W[k][x])
               /\ Flatten(W) = SelectSeq(N, NotSpace)
               /\ \A k \in DOMAIN W :
                    \/ Len(W[k]) = 1 /\ ispunct(W[k][1])
                    \/ Len(W[k]) = 3 /\ CjkAt(W[k], 1)
                    \/ \A x \in DOMAIN W[k] :
                            ~ispunct(W[k][x]) /\ ~CjkAt(W[k], x)

\* C19, witness: the text "a" + U+4E00 has been cut into the two words "a"
\* and U+4E00.
C19_CjkCutFromLetter ==
    /\ last.op = "tokenize"
    /\ last.texts = <<<<97, 228, 184, 128>>>>
    /\ last.words = <<<<97>>, <<228, 184, 128>>>>

Forwarded == last.op \in {"forward_batch", "encode_batch"}

\* C14: row b of the output of bert_encode_batch is the embedding bert_encode
\* gives for text b alone, whatever the other rows of the batch, their
\* order and the padding they force on row b.
C14_BatchRowEqualsEncodeAlone ==
    last.op = "encode_batch"
        => \A b \in DOMAIN last.texts :
            LET alone == bert_forward_batch(
                             hparams,
                             encode_tokens(vocab, hparams, <<last.texts[b]>>))
            IN  (\A o \in alone : o.out = "embeddings")
                    => /\ last.out = "embeddings"
                       /\ \A o \in alone :
                            last.embeddings[b] = o.embeddings[1]

\* C15: every row bert_encode_batch (and so bert_encode) writes is a unit
\* vector.
C15_EncodedRowsAreUnitVectors ==
    last.op = "encode_batch"
        => /\ proc = "running"
           /\ last.out = "embeddings"
           /\ \A b \in DOMAIN last.texts : last.embeddings[b].l2 = "one"

ForwardOrder == <<"reset", "build", "alloc_graph", "compute", "copy">>

IsPrefix(a, b) == Len(a) <= Len(b) /\ a = SubSeq(b, 1, Len(a))

\* C16: the steps of a forward pass are, in this order, the reset of the
\* compute allocator, the build of the graph, the allocation of the graph,
\* its execution and the copy to the caller's buffer; the pass returns only
\* after the copy; and after any number of passes the compute allocator
\* holds only allocations of the most recent one.
C16_ForwardStepsInOrder ==
    Forwarded
        => /\ last.steps # << >>
           /\ IsPrefix(last.steps, ForwardOrder)
           /\ proc = "running" => last.steps = ForwardOrder
           /\ \A a \in compute.allocs : a[1] = compute.calls

\* C16, witness: a second forward pass has returned and the allocator holds
\* its input tensors and its graph.
C16_SecondPassReturned ==
    /\ Forwarded
    /\ proc = "running"
    /\ compute.calls = 2
    /\ last.steps = ForwardOrder
    /\ compute.allocs = {<<2, t>> : t \in InputTensors \cup {"nodes"}}

\* C20: for a batch with L <= n_max_tokens built outside measure mode, for
\* every row b and position i < L: the token is batch[b][i] for i < n_b
\* and 101 otherwise, pad_mask is 1 for i < n_b and 0 otherwise, the
\* position is i, and the pooling weight is 1/n_b for i < n_b and 0
\* otherwise; the weighted positions of a row are its n_b unmasked ones.
C20_InputTensorsFilled ==
    (Forwarded /\ last.graph.gf = "graph"
        /\ max_len(last.batch) <= hparams.n_max_tokens)
        => LET g == last.graph
               B == Len(last.batch)
               L == max_len(last.batch)
           IN  /\ g.written
               /\ \A t \in {g.token_layer, g.pad_mask, g.positions, g.sum} :
                    DOMAIN t = 1..(L * B)
               /\ \A b \in 0..(B - 1) :
                    LET n_b == Len(last.batch[b + 1])
                    IN  /\ \A i \in 0..(L - 1) :
                             LET k == b * L + i + 1
                             IN  /\ g.token_layer[k]
                                      = IF i < n_b THEN last.batch[b + 1][i + 1]
                                        ELSE 101
                                 /\ g.pad_mask[k] = IF i < n_b THEN 1 ELSE 0
                                 /\ g.positions[k] = i
                                 /\ g.sum[k] = IF i < n_b THEN n_b ELSE 0
                        /\ {i \in 0..(L - 1) : g.sum[b * L + i + 1] # 0}
                              = {i \in 0..(L - 1) : g.pad_mask[b * L + i + 1] = 1}
                        /\ Cardinality({i \in 0..(L - 1) :
                                           g.sum[b * L + i + 1] # 0}) = n_b

\* C20, witness: a batch of a row of 2 and a row of 3 has been built, and
\* the third position of the first row is padding.
C20_ShortRowPadded ==
    /\ last.op = "forward_batch"
    /\ last.graph.gf = "graph"
    /\ Len(last.batch) = 2
    /\ Len(last.batch[1]) = 2
    /\ Len(last.batch[2]) = 3
    /\ last.graph.token_layer[3] = pad_tok_id
    /\ last.graph.pad_mask[3] = 0
    /\ last.graph.sum[3] = 0

\* C22: bert_free is only ever applied to a bert_ctx whose ctx_data and
\* ctx_gguf have both been assigned, the call the loader makes on its
\* seek-failure path included.
C22_FreeOnlyOnInitializedCtx ==
    \A k \in DOMAIN last.freed_with :
        {"ctx_data", "ctx_gguf"} \subseteq last.freed_with[k]

\* C21: the compute buffer, sized at load from one row of n_max_tokens ids,
\* holds the activations of every batch the graph builder accepts
\* (L <= n_max_tokens, any number of rows): allocating the graph in a
\* forward pass never runs out of space.
C21_AcceptedBatchFitsComputeBuffer ==
    (Forwarded /\ last.graph.gf = "graph") => last.alloc_graph = "ok"

=============================================================================
